---- MODULE Spec2Model ----
(***************************************************************************)
(* State-machine model of the integrated shell simulation (src/new.py):    *)
(* MemoryManager (paging with FIFO replacement), Process, and Scheduler    *)
(* (round-robin over a deque, priority scheduling over a heapq heap).      *)
(*                                                                         *)
(* Process objects are identified by their index in `procs` (object        *)
(* identity).  A page list is a Python list object; the list built by      *)
(* allocate_pages is stored both in process.allocated_pages and in         *)
(* page_table[pid] (one object, two references), so page_table maps a pid  *)
(* to the index of the Process whose list it aliases.                      *)
(***************************************************************************)
EXTENDS Integers, Sequences, FiniteSets, TLC

VARIABLES
    free_pages,         \* MemoryManager.free_pages: list of page numbers
    page_table,         \* MemoryManager.page_table: dict in insertion order, <<[pid, obj]>>
    fifo_queue,         \* MemoryManager.fifo_queue: deque of page numbers
    procs,              \* every Process object constructed so far
    round_robin_queue,  \* Scheduler.round_robin_queue: deque of Process objects
    priority_queue,     \* Scheduler.priority_queue: heapq array of Process objects
    time_quantum,       \* Scheduler.time_quantum
    now,                \* logical clock read by time.time(): advanced by the simulated bursts
    pc,                 \* position of the shell: "shell" (at the prompt), "rr",
                        \* "priority" (inside a scheduler run), "exited" (the loop was
                        \* left by exit, EOF or an interrupt), "crashed" (an exception
                        \* left ShellCore.run uncaught)
    alloc_order,        \* history: pages currently allocated, oldest allocation first
    last_alloc,         \* history: what the last allocate_pages call did
    run,                \* history: the current (or last) scheduler run
    buffer,             \* ProducerConsumer.buffer: list of items
    mutex,              \* ProducerConsumer.mutex: value of the semaphore
    empty_slots,        \* ProducerConsumer.empty_slots: value of the semaphore
    full_slots,         \* ProducerConsumer.full_slots: value of the semaphore
    producer,           \* per session: position and loop index of the producer thread
    consumer,           \* per session: position and loop index of the consumer thread
    consumed,           \* history: the items popped, in order, while one session is the
                        \* only one started (items of two producers bear the same names)
    launch_errors,      \* history: number of `add` commands whose launch raised
    deli3,              \* src/deli3.py: the MemoryManager class attributes
    final1              \* src/final1.py: the Scheduler class attributes and its shell

\* The state of the producer/consumer demonstration
sync == <<buffer, mutex, empty_slots, full_slots, producer, consumer, consumed>>

vars == <<free_pages, page_table, fifo_queue, procs, round_robin_queue,
          priority_queue, time_quantum, now, pc, alloc_order, last_alloc,
          run, buffer, mutex, empty_slots, full_slots, producer, consumer,
          consumed, launch_errors, deli3, final1>>

\* The state of the earlier deliverables, modelled apart from new.py
variants == <<deli3, final1>>

----------------------------------------------------------------------------
(* Bounds of the model *)

\* Number of page frames (TOTAL_MEMORY // PAGE_SIZE is 32 in the source; scaled down).
MAX_PAGES == 3
\* Number of `add` commands accepted in one session.
MaxProcs == 3
\* Number of distinct PIDs the operating system hands out (PIDs may recur).
MaxPid == 2
\* Largest priority value typed by the user.
MaxPriority == 2
\* Largest quantum typed by the user.
MaxQuantum == 2
\* Number of `add` commands whose launch fails in one session.
MaxLaunchErrors == 1
\* Number of `start producer-consumer` commands accepted in one session.
MaxSessions == 2
\* ProducerConsumer.buffer_size (5 in the source; scaled down).
buffer_size == 2
\* Items each producer emits and each consumer takes (count=5 in the source; scaled
\* down, and kept above buffer_size so that producers block on a full buffer).
count == 3

\* Simulated total run time of a process (Process.__init__).
BURST == 5
\* Scheduler.time_quantum default.
DEFAULT_QUANTUM == 2
\* Default priority of add_scheduled_process.
DEFAULT_PRIORITY == 1
\* Default number of pages for `add` without a page count.
DEFAULT_PAGES == 2

\* None for the optional timestamps.
None == -1

Priorities == 1..MaxPriority
\* Page counts typed by the user: negative, zero, up to one more than the pool holds
PageCounts == -1..(MAX_PAGES + 1)
Quanta == -1..MaxQuantum
\* Priorities as int() accepts them: negative and zero included
AnyPriorities == -1..MaxPriority
Sessions == 1..MaxSessions

----------------------------------------------------------------------------
(* Helpers on sequences *)

Range(s) == {s[i] : i \in 1..Len(s)}

Min(a, b) == IF a < b THEN a ELSE b

Max(a, b) == IF a > b THEN a ELSE b

\* list.remove(x): delete the first occurrence of x
RECURSIVE ListRemove(_, _)
ListRemove(s, x) ==
    IF s = <<>> THEN <<>>
    ELSE IF Head(s) = x THEN Tail(s)
    ELSE <<Head(s)>> \o ListRemove(Tail(s), x)

RECURSIVE SumLen(_, _)
SumLen(ps, S) ==
    IF S = {} THEN 0
    ELSE LET i == CHOOSE j \in S : TRUE
         IN Len(ps[i].allocated_pages) + SumLen(ps, S \ {i})

----------------------------------------------------------------------------
(* MemoryManager.  A memory state m is the record                          *)
(*   [free, fifo, pt, procs, order, evicted]                               *)
(* of free_pages, fifo_queue, page_table, the Process objects (for their   *)
(* page lists), and the history: allocation order and the evictions made.  *)

\* Positions of page_table (dict iteration order) whose list holds `page`
Holders(m, page) ==
    {k \in 1..Len(m.pt) : page \in Range(m.procs[m.pt[k].obj].allocated_pages)}

\* del page_table[pid] for the entry at position k
DictDelete(pt, k) == SubSeq(pt, 1, k - 1) \o SubSeq(pt, k + 1, Len(pt))

\* page_table[pid] = <list of object obj>; an existing key keeps its position
DictSet(pt, pid, obj) ==
    IF \E k \in 1..Len(pt) : pt[k].pid = pid
    THEN [k \in 1..Len(pt) |->
            IF pt[k].pid = pid THEN [pid |-> pid, obj |-> obj] ELSE pt[k]]
    ELSE Append(pt, [pid |-> pid, obj |-> obj])

\* deque.pop() in place of popleft(): the newest item is taken
popleft_Newest(q) == [item |-> q[Len(q)], rest |-> SubSeq(q, 1, Len(q) - 1)]

\* fifo_queue.popleft(): the item taken and the deque left
popleft(q) == [item |-> Head(q), rest |-> Tail(q)]

\* ReclaimOne without pages.remove(removed_page): the page is freed but stays listed
ReclaimOne_KeepsPage(m) ==
    LET removed_page == popleft(m.fifo).item
    IN  [m EXCEPT !.fifo = popleft(m.fifo).rest,
                  !.free = Append(m.free, removed_page),
                  !.order = ListRemove(m.order, removed_page),
                  !.evicted = Append(m.evicted,
                      [page |-> removed_page,
                       oldest |-> IF m.order = <<>> THEN None ELSE Head(m.order),
                       victim |-> 0])]

\* One iteration of the while loop of run_fifo_replacement
ReclaimOne(m) ==
    LET removed_page == popleft(m.fifo).item
        rest        == popleft(m.fifo).rest
        hit         == Holders(m, removed_page)
        k           == CHOOSE x \in hit : \A y \in hit : x <= y
        owner       == m.pt[k].obj
        pages       == ListRemove(m.procs[owner].allocated_pages, removed_page)
        oldest      == IF m.order = <<>> THEN None ELSE Head(m.order)
        ev(v)       == Append(m.evicted,
                              [page |-> removed_page, oldest |-> oldest, victim |-> v])
    IN  IF hit = {}
        THEN [m EXCEPT !.fifo = rest,
                       !.free = Append(m.free, removed_page),
                       !.order = ListRemove(m.order, removed_page),
                       !.evicted = ev(0)]
        ELSE [m EXCEPT !.fifo = rest,
                       !.procs = [m.procs EXCEPT ![owner].allocated_pages = pages],
                       !.pt = IF pages = <<>> THEN DictDelete(m.pt, k) ELSE m.pt,
                       !.free = Append(m.free, removed_page),
                       !.order = ListRemove(m.order, removed_page),
                       !.evicted = ev(owner)]

\* a replacement that goes on evicting until the eviction queue is empty
RECURSIVE run_fifo_replacement_Drain(_, _)
run_fifo_replacement_Drain(m, pages_needed) ==
    IF m.fifo # <<>>
    THEN run_fifo_replacement_Drain(ReclaimOne(m), pages_needed)
    ELSE m

RECURSIVE run_fifo_replacement(_, _)
run_fifo_replacement(m, pages_needed) ==
    IF Len(m.free) < pages_needed /\ m.fifo # <<>>
    THEN run_fifo_replacement(ReclaimOne(m), pages_needed)
    ELSE m

\* allocation loop that takes one page too few
Granted_OneShort(free, pages_needed) == Max(Min(Max(pages_needed, 0), Len(free)) - 1, 0)

\* Number of pages the allocation loop takes: one per iteration while free_pages lasts
Granted(free, pages_needed) == Min(Max(pages_needed, 0), Len(free))

\* allocate_pages for Process object i (already in m.procs)
allocate_pages(m, i) ==
    LET pages_needed == m.procs[i].pages_needed
        m1 == IF Len(m.free) < pages_needed
              THEN run_fifo_replacement(m, pages_needed)
              ELSE m
        n  == Granted(m1.free, pages_needed)
        allocated == SubSeq(m1.free, 1, n)
    IN  [m1 EXCEPT !.free  = SubSeq(m1.free, n + 1, Len(m1.free)),
                   !.fifo  = m1.fifo \o allocated,
                   !.order = m1.order \o allocated,
                   !.procs = [m1.procs EXCEPT ![i].allocated_pages = allocated,
                                              ![i].granted = n],
                   !.pt    = DictSet(m1.pt, m1.procs[i].pid, i)]

\* A process whose page list was emptied by eviction ("process has no pages left")
memoryStarved(i) ==
    procs[i].granted > 0 /\ procs[i].allocated_pages = <<>>

----------------------------------------------------------------------------
(* Process and the heapq operations on Scheduler.priority_queue.           *)
(* Heap positions are 0-based as in heapq; heap[pos + 1] is the element.   *)

\* Process.__init__
NewProcess(pid, priority, pages_needed, t) ==
    [pid |-> pid, priority |-> priority, pages_needed |-> pages_needed,
     start_time |-> t, execution_time |-> 0, remaining_time |-> BURST,
     response_time |-> None, completion_time |-> None,
     allocated_pages |-> <<>>, granted |-> 0]

\* __lt__ with the comparison the other way round (lowest priority first)
Lt_LowestFirst(ps, a, b) == ps[a].priority < ps[b].priority

\* Process.__lt__
Lt(ps, a, b) == ps[a].priority > ps[b].priority

RECURSIVE siftdown(_, _, _, _, _)
siftdown(ps, heap, startpos, pos, newitem) ==
    IF pos > startpos
    THEN LET parentpos == (pos - 1) \div 2
             parent    == heap[parentpos + 1]
         IN  IF Lt(ps, newitem, parent)
             THEN siftdown(ps, [heap EXCEPT ![pos + 1] = parent],
                           startpos, parentpos, newitem)
             ELSE [heap EXCEPT ![pos + 1] = newitem]
    ELSE [heap EXCEPT ![pos + 1] = newitem]

\* the loop of heapq._siftup: bubble the smaller child up until a leaf is hit
RECURSIVE siftup_loop(_, _, _, _)
siftup_loop(ps, heap, pos, newitem) ==
    LET endpos   == Len(heap)
        leftpos  == 2 * pos + 1
        rightpos == leftpos + 1
        childpos == IF rightpos < endpos
                       /\ ~Lt(ps, heap[leftpos + 1], heap[rightpos + 1])
                    THEN rightpos ELSE leftpos
    IN  IF leftpos < endpos
        THEN siftup_loop(ps, [heap EXCEPT ![pos + 1] = heap[childpos + 1]],
                         childpos, newitem)
        ELSE [heap |-> heap, pos |-> pos]

siftup(ps, heap, pos) ==
    LET newitem == heap[pos + 1]
        r       == siftup_loop(ps, heap, pos, newitem)
    IN  siftdown(ps, r.heap, pos, r.pos, newitem)

heappush(ps, heap, item) ==
    siftdown(ps, Append(heap, item), 0, Len(heap), item)

\* heappop: [item, heap]
heappop(ps, heap) ==
    LET lastelt == heap[Len(heap)]
        rest    == SubSeq(heap, 1, Len(heap) - 1)
    IN  IF rest # <<>>
        THEN [item |-> rest[1], heap |-> siftup(ps, [rest EXCEPT ![1] = lastelt], 0)]
        ELSE [item |-> lastelt, heap |-> rest]

----------------------------------------------------------------------------
(* Initial state: the class attributes as the module is loaded *)

\* src/deli3.py as loaded: every page free, nothing allocated, nothing queued
\* (calls: number of add_process calls so far, the k-th process being number k;
\* raised: an exception left the last call; replaced: history, free_pages as the
\* last run_page_replacement call left it; remaining_time: per process; pc: at the
\* prompt or inside run_round_robin)
deli3_Init ==
    [free_pages |-> [i \in 1..MAX_PAGES |-> i - 1], page_table |-> <<>>,
     fifo_queue |-> <<>>, lru_stack |-> <<>>, calls |-> 0, raised |-> FALSE,
     replaced |-> <<>>, round_robin_queue |-> <<>>, remaining_time |-> <<>>,
     time_quantum |-> DEFAULT_QUANTUM, pc |-> "shell"]

\* The tuple slot of src/final1.py that holds no dispatched process yet
NoTuple == [priority |-> None, process |-> 0]

\* src/final1.py as loaded: both queues empty, the shell at its prompt
final1_Init ==
    [round_robin_queue |-> <<>>, priority_queue |-> <<>>, pc |-> "shell",
     running |-> NoTuple, added |-> 0]

\* No scheduler run is in progress
NoRun == [kind |-> "none", queue |-> <<>>, procs0 |-> <<>>, log |-> <<>>]

Init ==
    /\ free_pages = [i \in 1..MAX_PAGES |-> i - 1]
    /\ page_table = <<>>
    /\ fifo_queue = <<>>
    /\ procs = <<>>
    /\ round_robin_queue = <<>>
    /\ priority_queue = <<>>
    /\ time_quantum = DEFAULT_QUANTUM
    /\ now = 0
    /\ pc = "shell"
    /\ alloc_order = <<>>
    /\ last_alloc = [obj |-> 0, evicted |-> <<>>]
    /\ run = NoRun
    /\ buffer = <<>>
    /\ mutex = 1
    /\ empty_slots = buffer_size
    /\ full_slots = 0
    /\ producer = [s \in Sessions |-> [pc |-> "idle", i |-> 0]]
    /\ consumer = [s \in Sessions |-> [pc |-> "idle", i |-> 0]]
    /\ consumed = <<>>
    /\ launch_errors = 0
    /\ deli3 = deli3_Init
    /\ final1 = final1_Init

\* PIDs are opaque and compared only for equality: the k PIDs in use are 1..k,
\* and a launch returns one of them again or the next unused one.
PidChoices == 1..Min(MaxPid, Cardinality({procs[i].pid : i \in 1..Len(procs)}) + 1)

----------------------------------------------------------------------------
(* Shell commands *)

\* a clamp that lets a quantum of zero through
ClampQuantum_AllowsZero(quantum) == Max(0, quantum)

\* a quantum stored as typed
ClampQuantum_Unclamped(quantum) == quantum

\* max(1, quantum)
ClampQuantum(quantum) == Max(1, quantum)

\* `set quantum q`: Scheduler.set_time_quantum
set_time_quantum(quantum) ==
    /\ pc = "shell"
    /\ time_quantum' = ClampQuantum(quantum)
    /\ UNCHANGED <<sync, launch_errors, variants>>
    /\ UNCHANGED <<free_pages, page_table, fifo_queue, procs, round_robin_queue,
                   priority_queue, now, pc, alloc_order, last_alloc, run>>

\* `add <command> <priority> <pages>`: Scheduler.add_scheduled_process, the launch
\* having returned `pid`
add_scheduled_process(pid, priority, pages_needed) ==
    /\ pc = "shell"
    /\ Len(procs) < MaxProcs
    /\ LET i  == Len(procs) + 1
           m0 == [free |-> free_pages, fifo |-> fifo_queue, pt |-> page_table,
                  procs |-> Append(procs, NewProcess(pid, priority, pages_needed, now)),
                  order |-> alloc_order, evicted |-> <<>>]
           m  == allocate_pages(m0, i)
       IN  /\ free_pages' = m.free
           /\ fifo_queue' = m.fifo
           /\ page_table' = m.pt
           /\ procs' = m.procs
           /\ alloc_order' = m.order
           /\ last_alloc' = [obj |-> i, evicted |-> m.evicted]
           /\ round_robin_queue' = Append(round_robin_queue, i)
           /\ priority_queue' = heappush(m.procs, priority_queue, i)
    /\ UNCHANGED <<sync, launch_errors, variants>>
    /\ UNCHANGED <<time_quantum, now, pc, run>>

\* Python truthiness of an optional timestamp: None and 0 are false
Truthy(value) == value # None /\ value # 0

\* metrics whose waiting time forgets the time spent executing
print_metrics_NoExecution(process) ==
    LET turnaround_time == process.completion_time - process.start_time
    IN  [turnaround |-> turnaround_time,
         waiting    |-> turnaround_time,
         response   |-> IF Truthy(process.response_time)
                        THEN process.response_time - process.start_time ELSE 0]

\* Scheduler.print_metrics: the three figures it prints
print_metrics(process) ==
    LET turnaround_time == process.completion_time - process.start_time
        waiting_time    == turnaround_time - process.execution_time
        response_time   == IF Truthy(process.response_time)
                           THEN process.response_time - process.start_time ELSE 0
    IN  [turnaround |-> turnaround_time,
         waiting    |-> waiting_time,
         response   |-> response_time]

\* The entry of the run history for a dispatch that printed nothing
NoMetrics == [turnaround |-> None, waiting |-> None, response |-> None]

\* a slice that ignores the remaining time (always the full quantum)
RunTime_FullQuantum(quantum, remaining_time) == quantum

\* The slice of one round-robin dispatch
RunTime(quantum, remaining_time) == Min(quantum, remaining_time)

\* `schedule rr`: entry of Scheduler.run_round_robin
run_round_robin ==
    /\ pc = "shell"
    /\ pc' = "rr"
    /\ run' = [kind |-> "rr", queue |-> round_robin_queue, procs0 |-> procs,
               log |-> <<>>]
    /\ UNCHANGED <<sync, launch_errors, variants>>
    /\ UNCHANGED <<free_pages, page_table, fifo_queue, procs, round_robin_queue,
                   priority_queue, time_quantum, now, alloc_order, last_alloc>>

\* One iteration of the while loop of run_round_robin
rr_dispatch ==
    /\ pc = "rr"
    /\ round_robin_queue # <<>>
    /\ LET process  == popleft(round_robin_queue).item
           rest     == popleft(round_robin_queue).rest
           p        == procs[process]
           run_time == RunTime(time_quantum, p.remaining_time)
           left     == p.remaining_time - run_time
           t        == now + run_time
           after    == [p EXCEPT
                  !.response_time =
                      IF p.response_time = None THEN now ELSE p.response_time,
                  !.execution_time = p.execution_time + run_time,
                  !.remaining_time = left,
                  !.completion_time =
                      IF left > 0 THEN p.completion_time ELSE t]
       IN  /\ now' = t
           /\ procs' = [procs EXCEPT ![process] = after]
           /\ round_robin_queue' = IF left > 0 THEN Append(rest, process) ELSE rest
           /\ run' = [run EXCEPT !.log = Append(run.log,
                            [proc |-> process, remaining |-> p.remaining_time,
                             completed |-> ~(left > 0),
                             metrics |-> IF left > 0 THEN NoMetrics
                                         ELSE print_metrics(after)])]
    /\ UNCHANGED <<sync, launch_errors, variants>>
    /\ UNCHANGED <<free_pages, page_table, fifo_queue, priority_queue,
                   time_quantum, pc, alloc_order, last_alloc>>

\* The while condition of run_round_robin fails: the call returns
rr_return ==
    /\ pc = "rr"
    /\ round_robin_queue = <<>>
    /\ pc' = "shell"
    /\ run' = NoRun
    /\ UNCHANGED <<sync, launch_errors, variants>>
    /\ UNCHANGED <<free_pages, page_table, fifo_queue, procs, round_robin_queue,
                   priority_queue, time_quantum, now, alloc_order, last_alloc>>

\* a fixed two-second run in place of the remaining burst
PriorityRunTime_Fixed(remaining_time) == 2

\* The burst of one priority dispatch: the whole remaining time
PriorityRunTime(remaining_time) == remaining_time

\* `schedule priority`: entry of Scheduler.run_priority_scheduling
run_priority_scheduling ==
    /\ pc = "shell"
    /\ pc' = "priority"
    /\ run' = [kind |-> "priority", queue |-> priority_queue, procs0 |-> procs,
               log |-> <<>>]
    /\ UNCHANGED <<sync, launch_errors, variants>>
    /\ UNCHANGED <<free_pages, page_table, fifo_queue, procs, round_robin_queue,
                   priority_queue, time_quantum, now, alloc_order, last_alloc>>

\* One iteration of the while loop of run_priority_scheduling
priority_dispatch ==
    /\ pc = "priority"
    /\ priority_queue # <<>>
    /\ LET popped  == heappop(procs, priority_queue)
           process == popped.item
           p       == procs[process]
           burst   == PriorityRunTime(p.remaining_time)
           t       == now + burst
           after   == [p EXCEPT
                  !.response_time =
                      IF p.response_time = None THEN now ELSE p.response_time,
                  !.execution_time = p.execution_time + burst,
                  !.remaining_time = 0,
                  !.completion_time = t]
       IN  /\ now' = t
           /\ procs' = [procs EXCEPT ![process] = after]
           /\ priority_queue' = popped.heap
           /\ run' = [run EXCEPT !.log = Append(run.log,
                            [proc |-> process, remaining |-> p.remaining_time,
                             completed |-> TRUE,
                             metrics |-> print_metrics(after)])]
    /\ UNCHANGED <<sync, launch_errors, variants>>
    /\ UNCHANGED <<free_pages, page_table, fifo_queue, round_robin_queue,
                   time_quantum, pc, alloc_order, last_alloc>>

\* a return that gives the pages of every process back to the pool
priority_return_ReleasesPages ==
    /\ pc = "priority"
    /\ priority_queue = <<>>
    /\ pc' = "shell"
    /\ run' = NoRun
    /\ free_pages' = free_pages \o fifo_queue
    /\ fifo_queue' = <<>>
    /\ page_table' = <<>>
    /\ procs' = [process \in 1..Len(procs) |->
                    [procs[process] EXCEPT !.allocated_pages = <<>>]]
    /\ alloc_order' = <<>>
    /\ UNCHANGED <<sync, launch_errors, variants>>
    /\ UNCHANGED <<round_robin_queue, priority_queue, time_quantum, now, last_alloc>>

\* The while condition of run_priority_scheduling fails: the call returns
priority_return ==
    /\ pc = "priority"
    /\ priority_queue = <<>>
    /\ pc' = "shell"
    /\ run' = NoRun
    /\ UNCHANGED <<sync, launch_errors, variants>>
    /\ UNCHANGED <<free_pages, page_table, fifo_queue, procs, round_robin_queue,
                   priority_queue, time_quantum, now, alloc_order, last_alloc>>

\* a failed launch that still leaves a control block in round_robin_queue
add_launch_error_Enqueues ==
    /\ pc = "shell"
    /\ launch_errors < MaxLaunchErrors
    /\ Len(procs) < MaxProcs
    /\ launch_errors' = launch_errors + 1
    /\ procs' = Append(procs, NewProcess(None, DEFAULT_PRIORITY, DEFAULT_PAGES, now))
    /\ round_robin_queue' = Append(round_robin_queue, Len(procs) + 1)
    /\ UNCHANGED <<sync, variants>>
    /\ UNCHANGED <<free_pages, page_table, fifo_queue, priority_queue,
                   time_quantum, now, pc, alloc_order, last_alloc, run>>

\* `add <command> ...` whose subprocess.Popen raises: add_scheduled_process prints
\* the error and returns before a Process is constructed
add_launch_error ==
    /\ pc = "shell"
    /\ launch_errors < MaxLaunchErrors
    /\ launch_errors' = launch_errors + 1
    /\ UNCHANGED <<sync, variants>>
    /\ UNCHANGED <<free_pages, page_table, fifo_queue, procs, round_robin_queue,
                   priority_queue, time_quantum, now, pc, alloc_order, last_alloc,
                   run>>

SetQuantum == \E q \in Quanta : set_time_quantum(q)

\* `add <command> <priority>`: the page count defaults
Add == \E pid \in PidChoices, priority \in Priorities :
           add_scheduled_process(pid, priority, DEFAULT_PAGES)

\* `add` with any priority, at the default page count
AddAnyPriority == \E pid \in PidChoices, priority \in AnyPriorities :
                      add_scheduled_process(pid, priority, DEFAULT_PAGES)

\* `add` with any page count, at the default priority
AddAnyPages == \E pid \in PidChoices, pages \in PageCounts :
                   add_scheduled_process(pid, DEFAULT_PRIORITY, pages)

Next ==
    \/ SetQuantum
    \/ Add
    \/ run_round_robin
    \/ rr_dispatch
    \/ rr_return
    \/ run_priority_scheduling
    \/ priority_dispatch
    \/ priority_return

Spec == Init /\ [][Next]_vars

\* Sessions of `add` commands only: the memory manager under every page count
NextMem == AddAnyPages

SpecMem == Init /\ [][NextMem]_vars

\* Every variable but pc
but_pc == <<free_pages, page_table, fifo_queue, procs, round_robin_queue,
            priority_queue, time_quantum, now, alloc_order, last_alloc, run,
            sync, launch_errors, variants>>

\* `set quantum <word>`: int(parts[2]) raises ValueError, which the except clause
\* of the loop (KeyboardInterrupt, EOFError) does not catch
set_quantum_not_integer ==
    /\ pc = "shell"
    /\ pc' = "crashed"
    /\ UNCHANGED but_pc

\* `add <command> <word>`: int(parts[-2]) raises ValueError, and int(parts[-1]) in
\* its handler raises ValueError again, uncaught
add_not_integer ==
    /\ pc = "shell"
    /\ pc' = "crashed"
    /\ UNCHANGED but_pc

\* `exit`, end of input or Ctrl-C at the prompt
exit_shell ==
    /\ pc = "shell"
    /\ pc' = "exited"
    /\ UNCHANGED but_pc

\* Ctrl-C during the time.sleep of run_round_robin, `elapsed` seconds into the
\* burst: KeyboardInterrupt leaves run_round_robin and ends the loop of the shell
KeyboardInterrupt_rr(elapsed) ==
    /\ pc = "rr"
    /\ round_robin_queue # <<>>
    /\ LET process  == popleft(round_robin_queue).item
           rest     == popleft(round_robin_queue).rest
           p        == procs[process]
       IN  /\ elapsed <= RunTime(time_quantum, p.remaining_time)
           /\ now' = now + elapsed
           /\ procs' = [procs EXCEPT ![process].response_time =
                            IF p.response_time = None THEN now ELSE p.response_time]
           /\ round_robin_queue' = rest
    /\ pc' = "exited"
    /\ run' = NoRun
    /\ UNCHANGED <<sync, launch_errors, variants>>
    /\ UNCHANGED <<free_pages, page_table, fifo_queue, priority_queue,
                   time_quantum, alloc_order, last_alloc>>

\* Ctrl-C during the time.sleep of run_priority_scheduling
KeyboardInterrupt_priority(elapsed) ==
    /\ pc = "priority"
    /\ priority_queue # <<>>
    /\ LET popped  == heappop(procs, priority_queue)
           process == popped.item
           p       == procs[process]
       IN  /\ elapsed <= PriorityRunTime(p.remaining_time)
           /\ now' = now + elapsed
           /\ procs' = [procs EXCEPT ![process].response_time =
                            IF p.response_time = None THEN now ELSE p.response_time]
           /\ priority_queue' = popped.heap
    /\ pc' = "exited"
    /\ run' = NoRun
    /\ UNCHANGED <<sync, launch_errors, variants>>
    /\ UNCHANGED <<free_pages, page_table, fifo_queue, round_robin_queue,
                   time_quantum, alloc_order, last_alloc>>

\* The whole shell loop: the commands, their failures, and interrupts
NextShell ==
    \/ Next
    \/ add_launch_error
    \/ set_quantum_not_integer
    \/ add_not_integer
    \/ exit_shell
    \/ \E elapsed \in 0..BURST : KeyboardInterrupt_rr(elapsed)
    \/ \E elapsed \in 0..BURST : KeyboardInterrupt_priority(elapsed)

SpecShell == Init /\ [][NextShell]_vars

\* Sessions of `add` commands, some of whose launches fail
NextAdmit ==
    \/ AddAnyPages
    \/ AddAnyPriority
    \/ add_launch_error

SpecAdmit == Init /\ [][NextAdmit]_vars

----------------------------------------------------------------------------
(* Producer/consumer demonstration: ProducerConsumer and `start producer-consumer` *)

\* The variables of the memory manager, the scheduler and the shell
shell == <<free_pages, page_table, fifo_queue, procs, round_robin_queue,
           priority_queue, time_quantum, now, pc, alloc_order, last_alloc, run,
           launch_errors>>

\* an acquire that never blocks
CanAcquire_Always(value) == TRUE

\* threading.Semaphore.acquire() blocks while the value is zero
CanAcquire(value) == value > 0

\* threading.Semaphore.acquire(): one permit taken
Acquire(value) == value - 1

\* a release that hands back two permits
Release_Double(value) == value + 2

\* a release whose permit is lost
Release_Lost(value) == value

\* threading.Semaphore.release(): one permit more, without an upper limit
Release(value) == value + 1

\* item = f"Item-{i}": the item is named by the loop index alone
Item(i) == [name |-> "Item", i |-> i]

\* list.pop() in place of list.pop(0)
pop0_Last(list) == [item |-> list[Len(list)], rest |-> SubSeq(list, 1, Len(list) - 1)]

\* list[0] in place of list.pop(0): the first element is read and stays
pop0_Peek(list) == [item |-> Head(list), rest |-> list]

\* list.pop(0): the first element leaves the list
pop0(list) == [item |-> Head(list), rest |-> Tail(list)]

\* The thread moves to `next`
Goto(thread, s, next) == [thread EXCEPT ![s].pc = next]

\* End of one loop iteration: the next iteration, or the thread ends after `count`
NextIteration(thread, s, first) ==
    [thread EXCEPT ![s].i = @ + 1,
                   ![s].pc = IF thread[s].i + 1 < count THEN first ELSE "done"]

\* Sessions started so far
Started == {s \in Sessions : producer[s].pc # "idle"}

\* `start producer-consumer`: one producer thread and one consumer thread start
start_producer_consumer ==
    /\ pc = "shell"
    /\ \E s \in Sessions :
          /\ producer[s].pc = "idle"
          /\ \A r \in Sessions : r < s => producer[r].pc # "idle"
          /\ producer' = Goto(producer, s, "empty_slots.acquire")
          /\ consumer' = Goto(consumer, s, "full_slots.acquire")
    /\ consumed' = <<>>
    /\ UNCHANGED <<buffer, mutex, empty_slots, full_slots>>
    /\ UNCHANGED <<shell, variants>>

\* producer: ProducerConsumer.empty_slots.acquire()
producer_empty_slots_acquire(s) ==
    /\ producer[s].pc = "empty_slots.acquire"
    /\ CanAcquire(empty_slots)
    /\ empty_slots' = Acquire(empty_slots)
    /\ producer' = Goto(producer, s, "mutex.acquire")
    /\ UNCHANGED <<buffer, mutex, full_slots, consumer, consumed>>
    /\ UNCHANGED <<shell, variants>>

\* producer: ProducerConsumer.mutex.acquire()
producer_mutex_acquire(s) ==
    /\ producer[s].pc = "mutex.acquire"
    /\ CanAcquire(mutex)
    /\ mutex' = Acquire(mutex)
    /\ producer' = Goto(producer, s, "append")
    /\ UNCHANGED <<buffer, empty_slots, full_slots, consumer, consumed>>
    /\ UNCHANGED <<shell, variants>>

\* producer: ProducerConsumer.buffer.append(item)
producer_append(s) ==
    /\ producer[s].pc = "append"
    /\ buffer' = Append(buffer, Item(producer[s].i))
    /\ producer' = Goto(producer, s, "mutex.release")
    /\ UNCHANGED <<mutex, empty_slots, full_slots, consumer, consumed>>
    /\ UNCHANGED <<shell, variants>>

\* producer: ProducerConsumer.mutex.release()
producer_mutex_release(s) ==
    /\ producer[s].pc = "mutex.release"
    /\ mutex' = Release(mutex)
    /\ producer' = Goto(producer, s, "full_slots.release")
    /\ UNCHANGED <<buffer, empty_slots, full_slots, consumer, consumed>>
    /\ UNCHANGED <<shell, variants>>

\* producer: ProducerConsumer.full_slots.release(), then the next iteration
producer_full_slots_release(s) ==
    /\ producer[s].pc = "full_slots.release"
    /\ full_slots' = Release(full_slots)
    /\ producer' = NextIteration(producer, s, "empty_slots.acquire")
    /\ UNCHANGED <<buffer, mutex, empty_slots, consumer, consumed>>
    /\ UNCHANGED <<shell, variants>>

\* consumer: ProducerConsumer.full_slots.acquire()
consumer_full_slots_acquire(s) ==
    /\ consumer[s].pc = "full_slots.acquire"
    /\ CanAcquire(full_slots)
    /\ full_slots' = Acquire(full_slots)
    /\ consumer' = Goto(consumer, s, "mutex.acquire")
    /\ UNCHANGED <<buffer, mutex, empty_slots, producer, consumed>>
    /\ UNCHANGED <<shell, variants>>

\* consumer: ProducerConsumer.mutex.acquire()
consumer_mutex_acquire(s) ==
    /\ consumer[s].pc = "mutex.acquire"
    /\ CanAcquire(mutex)
    /\ mutex' = Acquire(mutex)
    /\ consumer' = Goto(consumer, s, "pop")
    /\ UNCHANGED <<buffer, empty_slots, full_slots, producer, consumed>>
    /\ UNCHANGED <<shell, variants>>

\* consumer: if ProducerConsumer.buffer: item = ProducerConsumer.buffer.pop(0)
consumer_pop(s) ==
    /\ consumer[s].pc = "pop"
    /\ IF buffer # <<>>
       THEN /\ buffer' = pop0(buffer).rest
            /\ consumed' = IF Cardinality(Started) = 1
                           THEN Append(consumed, pop0(buffer).item)
                           ELSE consumed
       ELSE UNCHANGED <<buffer, consumed>>
    /\ consumer' = Goto(consumer, s, "mutex.release")
    /\ UNCHANGED <<mutex, empty_slots, full_slots, producer>>
    /\ UNCHANGED <<shell, variants>>

\* consumer: ProducerConsumer.mutex.release()
consumer_mutex_release(s) ==
    /\ consumer[s].pc = "mutex.release"
    /\ mutex' = Release(mutex)
    /\ consumer' = Goto(consumer, s, "empty_slots.release")
    /\ UNCHANGED <<buffer, empty_slots, full_slots, producer, consumed>>
    /\ UNCHANGED <<shell, variants>>

\* consumer: ProducerConsumer.empty_slots.release(), then the next iteration
consumer_empty_slots_release(s) ==
    /\ consumer[s].pc = "empty_slots.release"
    /\ empty_slots' = Release(empty_slots)
    /\ consumer' = NextIteration(consumer, s, "full_slots.acquire")
    /\ UNCHANGED <<buffer, mutex, full_slots, producer, consumed>>
    /\ UNCHANGED <<shell, variants>>

\* One step of the producer thread of session s
producer_step(s) ==
    \/ producer_empty_slots_acquire(s)
    \/ producer_mutex_acquire(s)
    \/ producer_append(s)
    \/ producer_mutex_release(s)
    \/ producer_full_slots_release(s)

\* One step of the consumer thread of session s
consumer_step(s) ==
    \/ consumer_full_slots_acquire(s)
    \/ consumer_mutex_acquire(s)
    \/ consumer_pop(s)
    \/ consumer_mutex_release(s)
    \/ consumer_empty_slots_release(s)

NextSync ==
    \/ start_producer_consumer
    \/ \E s \in Sessions : producer_step(s)
    \/ \E s \in Sessions : consumer_step(s)

\* The shell starting sessions, and their threads under every interleaving
SpecSync == Init /\ [][NextSync]_vars

\* The same with every thread scheduled again and again (the threads of the
\* interpreter are all given processor time)
SpecSyncFair ==
    /\ Init
    /\ [][NextSync]_vars
    /\ \A s \in Sessions : WF_vars(producer_step(s)) /\ WF_vars(consumer_step(s))

----------------------------------------------------------------------------
(* src/deli3.py: MemoryManager with the FIFO queue and the LRU fallback *)

\* page_table[pid] = pages: an existing key keeps its place and gets the new list
deli3_DictSet(pt, pid, pages) ==
    IF \E k \in 1..Len(pt) : pt[k].pid = pid
    THEN [k \in 1..Len(pt) |-> IF pt[k].pid = pid THEN [pid |-> pid, pages |-> pages]
                                                     ELSE pt[k]]
    ELSE Append(pt, [pid |-> pid, pages |-> pages])

\* The body of the for loop of run_page_replacement: the first list that holds the
\* page loses it, and its page_table entry with it when the list becomes empty
deli3_Reclaim(pt, removed_page) ==
    IF \E k \in 1..Len(pt) : removed_page \in Range(pt[k].pages)
    THEN LET k     == CHOOSE j \in 1..Len(pt) :
                          /\ removed_page \in Range(pt[j].pages)
                          /\ \A l \in 1..(j - 1) : removed_page \notin Range(pt[l].pages)
             pages == ListRemove(pt[k].pages, removed_page)
         IN  IF pages = <<>>
             THEN SubSeq(pt, 1, k - 1) \o SubSeq(pt, k + 1, Len(pt))
             ELSE [pt EXCEPT ![k].pages = pages]
    ELSE pt

RECURSIVE deli3_run_page_replacement(_, _)
\* MemoryManager.run_page_replacement of src/deli3.py; raised: lru_stack.pop(0) on
\* an empty list (IndexError)
deli3_run_page_replacement(m, pages_needed) ==
    IF ~(Len(m.free_pages) < pages_needed) THEN m
    ELSE IF m.fifo_queue # <<>>
    THEN deli3_run_page_replacement(
             [m EXCEPT !.fifo_queue = Tail(m.fifo_queue),
                       !.page_table = deli3_Reclaim(m.page_table, Head(m.fifo_queue)),
                       !.free_pages = Append(m.free_pages, Head(m.fifo_queue))],
             pages_needed)
    ELSE IF m.lru_stack # <<>>
    THEN deli3_run_page_replacement(
             [m EXCEPT !.lru_stack = Tail(m.lru_stack),
                       !.page_table = deli3_Reclaim(m.page_table, Head(m.lru_stack)),
                       !.free_pages = Append(m.free_pages, Head(m.lru_stack))],
             pages_needed)
    ELSE [m EXCEPT !.raised = TRUE]

\* `add <command> <priority> <pages>` in src/deli3.py: Scheduler.add_process
\* queues the new process, then MemoryManager.allocate_pages serves its page
\* request; an IndexError leaves the shell uncaught
deli3_allocate_pages(pid, pages_needed) ==
    /\ deli3.pc = "shell"
    /\ ~deli3.raised
    /\ deli3.calls < MaxProcs
    /\ LET m0        == [deli3 EXCEPT !.calls = @ + 1,
                                      !.round_robin_queue = Append(@, deli3.calls + 1),
                                      !.remaining_time = Append(@, BURST)]
           r         == deli3_run_page_replacement(m0, pages_needed)
           m         == IF Len(m0.free_pages) < pages_needed
                        THEN [r EXCEPT !.replaced = r.free_pages]
                        ELSE m0
           n         == Granted(m.free_pages, pages_needed)
           allocated == SubSeq(m.free_pages, 1, n)
       IN  deli3' = IF m.raised THEN m
                    ELSE [m EXCEPT
                             !.free_pages = SubSeq(m.free_pages, n + 1, Len(m.free_pages)),
                             !.fifo_queue = m.fifo_queue \o allocated,
                             !.lru_stack = m.lru_stack \o allocated,
                             !.page_table = deli3_DictSet(m.page_table, pid, allocated)]
    /\ UNCHANGED <<shell, sync, final1>>

\* Scheduler.set_time_quantum of src/deli3.py (its shell has no command for it)
deli3_set_time_quantum(quantum) ==
    /\ deli3.pc = "shell"
    /\ ~deli3.raised
    /\ deli3' = [deli3 EXCEPT !.time_quantum = Max(1, quantum)]
    /\ UNCHANGED <<shell, sync, final1>>

\* `schedule rr` in src/deli3.py: entry of Scheduler.run_round_robin
deli3_run_round_robin ==
    /\ deli3.pc = "shell"
    /\ ~deli3.raised
    /\ deli3' = [deli3 EXCEPT !.pc = "rr"]
    /\ UNCHANGED <<shell, sync, final1>>

\* One iteration of the while loop of run_round_robin in src/deli3.py: the head of
\* the queue runs for a whole quantum and returns to the tail while time remains
deli3_rr_dispatch ==
    /\ deli3.pc = "rr"
    /\ deli3.round_robin_queue # <<>>
    /\ LET process   == Head(deli3.round_robin_queue)
           remaining == deli3.remaining_time[process] - deli3.time_quantum
       IN  deli3' = [deli3 EXCEPT
               !.remaining_time[process] = remaining,
               !.round_robin_queue = IF remaining > 0
                                     THEN Append(Tail(@), process)
                                     ELSE Tail(@)]
    /\ UNCHANGED <<shell, sync, final1>>

\* The while condition of run_round_robin in src/deli3.py fails: back to the prompt
deli3_rr_return ==
    /\ deli3.pc = "rr"
    /\ deli3.round_robin_queue = <<>>
    /\ deli3' = [deli3 EXCEPT !.pc = "shell"]
    /\ UNCHANGED <<shell, sync, final1>>

NextDeli3 ==
    \/ \E pid \in 1..MaxPid, pages_needed \in PageCounts :
           deli3_allocate_pages(pid, pages_needed)
    \/ \E quantum \in Quanta : deli3_set_time_quantum(quantum)
    \/ deli3_run_round_robin
    \/ deli3_rr_dispatch
    \/ deli3_rr_return

SpecDeli3 == Init /\ [][NextDeli3]_vars

----------------------------------------------------------------------------
(* src/final1.py: Scheduler over (priority, process) tuples *)

\* (priority, process) < (priority, process) as Python compares tuples: by the
\* priorities when they differ, else by the Popen objects, which define no order
TupleLt(a, b) ==
    IF a.priority # b.priority THEN [raised |-> FALSE, lt |-> a.priority < b.priority]
    ELSE [raised |-> TRUE, lt |-> FALSE]

\* The list with the entries at positions i and j (counted from 1) exchanged
Swap(heap, i, j) == [heap EXCEPT ![i] = heap[j], ![j] = heap[i]]

RECURSIVE final1_siftdown(_, _, _)
\* heapq siftdown (positions counted from 0): the entry at pos rises while it is
\* less than its parent; raised: a comparison raised TypeError
final1_siftdown(heap, startpos, pos) ==
    IF pos > startpos
    THEN LET parentpos == (pos - 1) \div 2
             cmp       == TupleLt(heap[pos + 1], heap[parentpos + 1])
         IN  IF cmp.raised THEN [heap |-> heap, raised |-> TRUE]
             ELSE IF cmp.lt
             THEN final1_siftdown(Swap(heap, pos + 1, parentpos + 1), startpos, parentpos)
             ELSE [heap |-> heap, raised |-> FALSE]
    ELSE [heap |-> heap, raised |-> FALSE]

RECURSIVE final1_siftup_loop(_, _)
\* heapq siftup (positions counted from 0): the smaller child rises until the
\* entry reaches a leaf
final1_siftup_loop(heap, pos) ==
    IF pos < Len(heap) \div 2
    THEN LET childpos == 2 * pos + 1
             cmp      == IF childpos + 1 < Len(heap)
                         THEN TupleLt(heap[childpos + 1], heap[childpos + 2])
                         ELSE [raised |-> FALSE, lt |-> TRUE]
             child    == IF cmp.lt THEN childpos ELSE childpos + 1
         IN  IF cmp.raised THEN [heap |-> heap, pos |-> pos, raised |-> TRUE]
             ELSE final1_siftup_loop(Swap(heap, pos + 1, child + 1), child)
    ELSE [heap |-> heap, pos |-> pos, raised |-> FALSE]

\* heapq.heappush(heap, item)
final1_heappush(heap, item) ==
    final1_siftdown(Append(heap, item), 0, Len(heap))

\* heapq.heappop(heap): the last entry replaces the root and sinks; when a
\* comparison raises, the root that was taken out is lost
final1_heappop(heap) ==
    LET lastelt == heap[Len(heap)]
        shorter == SubSeq(heap, 1, Len(heap) - 1)
    IN  IF shorter = <<>> THEN [item |-> lastelt, heap |-> <<>>, raised |-> FALSE]
        ELSE LET down == final1_siftup_loop([shorter EXCEPT ![1] = lastelt], 0)
                 up   == final1_siftdown(down.heap, 0, down.pos)
             IN  IF down.raised
                 THEN [item |-> NoTuple, heap |-> down.heap, raised |-> TRUE]
                 ELSE [item |-> IF up.raised THEN NoTuple ELSE heap[1],
                       heap |-> up.heap, raised |-> up.raised]

\* `add <command> <priority>` in src/final1.py: Scheduler.add_process, the launch
\* succeeding; a TypeError of heappush is caught and reported
final1_add_process(priority) ==
    /\ final1.pc = "shell"
    /\ final1.added < MaxProcs
    /\ LET item == [priority |-> priority, process |-> final1.added + 1]
       IN  final1' = [final1 EXCEPT
               !.added = @ + 1,
               !.round_robin_queue = Append(@, item),
               !.priority_queue = final1_heappush(@, item).heap]
    /\ UNCHANGED <<shell, sync, deli3>>

\* `schedule priority` in src/final1.py: entry of run_priority_scheduling
final1_run_priority_scheduling ==
    /\ final1.pc = "shell"
    /\ final1' = [final1 EXCEPT !.pc = "priority", !.running = NoTuple]
    /\ UNCHANGED <<shell, sync, deli3>>

\* One iteration of the while loop of run_priority_scheduling in src/final1.py; a
\* TypeError of heappop leaves the loop and the shell uncaught
final1_priority_dispatch ==
    /\ final1.pc = "priority"
    /\ final1.priority_queue # <<>>
    /\ LET popped == final1_heappop(final1.priority_queue)
       IN  final1' = [final1 EXCEPT
               !.priority_queue = popped.heap,
               !.running = popped.item,
               !.pc = IF popped.raised THEN "crashed" ELSE "priority"]
    /\ UNCHANGED <<shell, sync, deli3>>

\* The while condition of run_priority_scheduling fails: back to the prompt
final1_priority_return ==
    /\ final1.pc = "priority"
    /\ final1.priority_queue = <<>>
    /\ final1' = [final1 EXCEPT !.pc = "shell"]
    /\ UNCHANGED <<shell, sync, deli3>>

NextFinal1 ==
    \/ \E priority \in AnyPriorities : final1_add_process(priority)
    \/ final1_run_priority_scheduling
    \/ final1_priority_dispatch
    \/ final1_priority_return

SpecFinal1 == Init /\ [][NextFinal1]_vars

----------------------------------------------------------------------------
(* Properties *)

Pages == 0..(MAX_PAGES - 1)

Objects == 1..Len(procs)

\* The page list page_table holds at position k
TableList(k) == procs[page_table[k].obj].allocated_pages

\* Positions of page_table whose list holds `page`
Owners(page) == {k \in 1..Len(page_table) : page \in Range(TableList(k))}

CeilDiv(a, b) == (a + b - 1) \div b

\* An `add` command was the step taken
Admitted == Len(procs') = Len(procs) + 1

\* C1: after every allocate_pages call, len(free_pages) plus the sum of the lengths
\* of all processes' page lists equals MAX_PAGES.
C1_PageConservation ==
    Len(free_pages) + SumLen(procs, Objects) = MAX_PAGES

\* C2: no page number is both in free_pages and in some page_table entry, and no
\* page number appears in more than one page_table entry.
C2_FreeOrOwnedOnce ==
    \A page \in Pages :
        /\ Cardinality(Owners(page)) <= 1
        /\ page \in Range(free_pages) => Owners(page) = {}

\* C2 witness: a page reclaimed from one process is now owned by the process just
\* admitted, while the victim still owns other pages.
C2_Witness ==
    \E k \in 1..Len(last_alloc.evicted) :
        LET e == last_alloc.evicted[k]
        IN  /\ e.victim # 0
            /\ procs[e.victim].allocated_pages # <<>>
            /\ \E x \in Owners(e.page) : page_table[x].obj = last_alloc.obj
            /\ \E y \in 1..Len(page_table) : page_table[y].obj = e.victim

\* C3: allocate_pages is all-or-nothing: the admitted process ends up with exactly
\* pages_needed pages, or with no pages and an unchanged memory state.
C3_AllOrNothing ==
    [][(Admitted /\ procs'[Len(procs')].pages_needed >= 0) =>
          LET new == procs'[Len(procs')]
          IN  \/ Len(new.allocated_pages) = new.pages_needed
              \/ /\ new.allocated_pages = <<>>
                 /\ free_pages' = free_pages
                 /\ fifo_queue' = fifo_queue
                 /\ page_table' = page_table]_vars

\* C4: every page reclaimed by run_fifo_replacement is the page allocated earliest
\* among the pages allocated at that moment.
C4_EvictsOldest ==
    \A k \in 1..Len(last_alloc.evicted) :
        last_alloc.evicted[k].page = last_alloc.evicted[k].oldest

\* C4 witness: an eviction after earlier evictions and re-allocations, where the
\* oldest page is not the lowest-numbered one.
C4_Witness ==
    /\ last_alloc.evicted # <<>>
    /\ last_alloc.evicted[1].page > 0
    /\ Len(procs) >= 3

\* The scenario of C5: A takes the whole pool, then B asks for 2 pages.
C5_Scenario ==
    /\ Len(procs) = 2
    /\ procs[1].pid # procs[2].pid
    /\ procs[1].pages_needed = MAX_PAGES
    /\ procs[2].pages_needed = 2

C6_StarvedNotDispatched ==
    [][\A i \in Objects :
          memoryStarved(i) =>
              /\ procs'[i].remaining_time = procs[i].remaining_time
              /\ procs'[i].execution_time = procs[i].execution_time]_vars

\* Dispatches of process i in the current run made before it was complete
DispatchesBeforeCompletion(i) ==
    Cardinality({k \in 1..Len(run.log) :
                    run.log[k].proc = i /\ run.log[k].remaining > 0})

\* C7: when run_round_robin has emptied its queue, every process that entered the
\* run with remaining burst R was dispatched ceil(R / time_quantum) times before it
\* completed, and the run added exactly R to its execution_time.
C7_DispatchCount ==
    (pc = "rr" /\ round_robin_queue = <<>>) =>
        \A i \in Range(run.queue) :
            LET R == run.procs0[i].remaining_time
            IN  /\ DispatchesBeforeCompletion(i) = CeilDiv(R, time_quantum)
                /\ procs[i].execution_time = run.procs0[i].execution_time + R
                /\ procs[i].remaining_time = 0

\* C7 witness: a finished run over several processes with a quantum that does not
\* divide the burst.
C7_Witness ==
    /\ pc = "rr"
    /\ round_robin_queue = <<>>
    /\ Len(run.queue) >= 2
    /\ time_quantum = 2
    /\ \E i \in Range(run.queue) : DispatchesBeforeCompletion(i) = 3

\* C8: at every dispatch of run_priority_scheduling, the process popped has a
\* priority greater than or equal to that of every process still in priority_queue.
C8_HighestFirst ==
    (pc = "priority" /\ run.log # <<>>) =>
        \A j \in Range(priority_queue) :
            procs[run.log[Len(run.log)].proc].priority >= procs[j].priority

\* C8 witness: a later-admitted process of higher priority is dispatched while
\* earlier-admitted processes of lower priority wait.
C8_Witness ==
    /\ pc = "priority"
    /\ run.log # <<>>
    /\ Len(priority_queue) >= 2
    /\ \E j \in Range(priority_queue) :
          /\ j < run.log[Len(run.log)].proc
          /\ procs[j].priority < procs[run.log[Len(run.log)].proc].priority

\* C9: among processes of equal priority, run_priority_scheduling dispatches them
\* in the order they were admitted.
C9_StableTieBreak ==
    pc = "priority" =>
        \A a, b \in 1..Len(run.log) :
            (a < b /\ procs[run.log[a].proc].priority = procs[run.log[b].proc].priority)
                => run.log[a].proc < run.log[b].proc

\* C10: a process whose remaining_time has reached 0 is in neither
\* round_robin_queue nor priority_queue.
C10_CompletedNotQueued ==
    \A i \in Objects :
        procs[i].remaining_time = 0 =>
            /\ i \notin Range(round_robin_queue)
            /\ i \notin Range(priority_queue)

\* C11: response_time and completion_time are each assigned at most once: once set,
\* no step changes them.
C11_TimestampsSetOnce ==
    [][\A i \in Objects :
          /\ procs[i].response_time # None =>
                 procs'[i].response_time = procs[i].response_time
          /\ procs[i].completion_time # None =>
                 procs'[i].completion_time = procs[i].completion_time]_vars

\* Processes dispatched so far in the current run
Dispatched == {run.log[k].proc : k \in 1..Len(run.log)}

\* C12: each dispatch of run_priority_scheduling consumes the whole remaining burst
\* in one step: remaining_time is 0, execution_time grew by exactly the previous
\* remaining_time, completion_time is set, and no other process was touched.
C12_RunsToCompletion ==
    pc = "priority" =>
        /\ \A k \in 1..Len(run.log) :
              LET i == run.log[k].proc
              IN  /\ run.log[k].remaining = run.procs0[i].remaining_time
                  /\ procs[i].remaining_time = 0
                  /\ procs[i].execution_time =
                         run.procs0[i].execution_time + run.log[k].remaining
                  /\ procs[i].completion_time # None
                  /\ \A l \in 1..Len(run.log) : run.log[l].proc = i => l = k
        /\ \A j \in Objects \ Dispatched : procs[j] = run.procs0[j]

\* C12 witness: a process with a full burst was run to completion in one dispatch
\* while other processes still wait in priority_queue.
C12_Witness ==
    /\ pc = "priority"
    /\ priority_queue # <<>>
    /\ \E k \in 1..Len(run.log) :
          /\ run.log[k].remaining = BURST
          /\ procs[run.log[k].proc].execution_time = BURST

\* Threads between mutex.acquire() and mutex.release()
Holding ==
    {<<"producer", s>> : s \in {r \in Sessions : producer[r].pc \in {"append", "mutex.release"}}}
    \cup
    {<<"consumer", s>> : s \in {r \in Sessions : consumer[r].pc \in {"pop", "mutex.release"}}}

\* Started threads that have not finished their loop
Unfinished ==
    {<<"producer", s>> : s \in {r \in Started : producer[r].pc # "done"}}
    \cup
    {<<"consumer", s>> : s \in {r \in Started : consumer[r].pc # "done"}}

\* C13: with any number of sessions running and under every interleaving, the buffer
\* holds between 0 and buffer_size items, and a consumer that reaches its pop finds
\* the buffer non-empty.
C13_BoundedBuffer ==
    /\ Len(buffer) >= 0
    /\ Len(buffer) <= buffer_size
    /\ \A s \in Sessions : consumer[s].pc = "pop" => buffer # <<>>

\* C13 witness: two sessions run, the buffer is full and a producer is blocked on
\* empty_slots while a consumer is about to pop.
C13_Witness ==
    /\ Cardinality(Started) >= 2
    /\ Len(buffer) = buffer_size
    /\ empty_slots = 0
    /\ \E s \in Sessions : producer[s].pc = "empty_slots.acquire"
    /\ \E s \in Sessions : consumer[s].pc = "pop"

\* C14: when one producer and one consumer have both finished, every produced item
\* was consumed exactly once, in production order, and none is left in the buffer.
C14_ExactlyOnceInOrder ==
    (Started = {1} /\ producer[1].pc = "done" /\ consumer[1].pc = "done") =>
        /\ consumed = [k \in 1..count |-> Item(k - 1)]
        /\ buffer = <<>>

\* C14 witness: a lone session with more items than the buffer holds has finished.
C14_Witness ==
    /\ count > buffer_size
    /\ Started = {1}
    /\ producer[1].pc = "done"
    /\ consumer[1].pc = "done"
    /\ Len(consumed) = count

\* C15: at most one thread is between mutex.acquire() and mutex.release(), the mutex
\* has no permit left while a thread is there, and a thread about to append or pop
\* is such a thread.
C15_MutualExclusion ==
    /\ Cardinality(Holding) <= 1
    /\ mutex = 1 - Cardinality(Holding)
    /\ \A s \in Sessions :
          /\ producer[s].pc = "append" => <<"producer", s>> \in Holding /\ mutex = 0
          /\ consumer[s].pc = "pop" => <<"consumer", s>> \in Holding /\ mutex = 0

\* C15 witness: with two sessions running, a producer is about to append while a
\* consumer waits for the mutex.
C15_Witness ==
    /\ Cardinality(Started) >= 2
    /\ mutex = 0
    /\ \E s \in Sessions : producer[s].pc = "append"
    /\ \E s \in Sessions : consumer[s].pc = "mutex.acquire"

\* The thread waits in acquire() on a semaphore that has no permit
Blocked(thread) ==
    LET s == thread[2]
    IN  IF thread[1] = "producer"
        THEN \/ producer[s].pc = "empty_slots.acquire" /\ ~CanAcquire(empty_slots)
             \/ producer[s].pc = "mutex.acquire" /\ ~CanAcquire(mutex)
        ELSE \/ consumer[s].pc = "full_slots.acquire" /\ ~CanAcquire(full_slots)
             \/ consumer[s].pc = "mutex.acquire" /\ ~CanAcquire(mutex)

\* C16: with every thread scheduled again and again, each started producer and each
\* started consumer finishes its loop, and in no state are all the unfinished
\* threads blocked on a semaphore.
C16_Progress ==
    /\ [](Unfinished # {} => \E thread \in Unfinished : ~Blocked(thread))
    /\ \A s \in Sessions :
          /\ (producer[s].pc # "idle") ~> (producer[s].pc = "done")
          /\ (consumer[s].pc # "idle") ~> (consumer[s].pc = "done")

\* C16 witness: every session was started and all their threads have finished.
C16_Witness ==
    /\ Started = Sessions
    /\ Unfinished = {}
    /\ buffer = <<>>

RECURSIVE Work(_)
\* Work left in a round-robin queue: one unit per queued entry plus its remaining time
Work(queue) ==
    IF queue = <<>> THEN 0
    ELSE 1 + procs[Head(queue)].remaining_time + Work(Tail(queue))

\* The loop bodies cannot fail: every queued entry is a Process object and the time
\* handed to time.sleep is not negative
LoopBodiesDefined ==
    /\ \A k \in 1..Len(round_robin_queue) :
          /\ round_robin_queue[k] \in Objects
          /\ RunTime(time_quantum, procs[round_robin_queue[k]].remaining_time) >= 0
    /\ \A k \in 1..Len(priority_queue) :
          /\ priority_queue[k] \in Objects
          /\ PriorityRunTime(procs[priority_queue[k]].remaining_time) >= 0

\* C17: run_round_robin and run_priority_scheduling terminate: the loop body cannot
\* fail, every iteration strictly decreases a non-negative measure of the queue,
\* and when the call returns the queue is empty and every process that was in it
\* has remaining_time 0.
C17_RunsTerminate ==
    /\ [](LoopBodiesDefined)
    /\ [](Work(round_robin_queue) >= 0)
    /\ [][rr_dispatch => Work(round_robin_queue)' < Work(round_robin_queue)]_vars
    /\ [][priority_dispatch => Len(priority_queue') < Len(priority_queue)]_vars
    /\ [][rr_return =>
            /\ round_robin_queue' = <<>>
            /\ \A i \in Range(run.queue) : procs'[i].remaining_time = 0]_vars
    /\ [][priority_return =>
            /\ priority_queue' = <<>>
            /\ \A i \in Range(run.queue) : procs'[i].remaining_time = 0]_vars

\* C17 witness: a round-robin run at the smallest quantum has emptied a queue of
\* several processes and is about to return.
C17_Witness ==
    /\ pc = "rr"
    /\ time_quantum = 1
    /\ round_robin_queue = <<>>
    /\ Len(run.queue) >= 2
    /\ Len(run.log) >= BURST * Len(run.queue)

\* C18: a round-robin dispatch runs its process for min(time_quantum, remaining_time);
\* no step of the program increases a process's remaining_time, and remaining_time
\* is never negative.
C18_RemainingTime ==
    /\ [](\A i \in Objects : procs[i].remaining_time >= 0)
    /\ [][\A i \in Objects : procs'[i].remaining_time <= procs[i].remaining_time]_vars
    /\ [][rr_dispatch =>
            LET process == Head(round_robin_queue)
                slice   == IF time_quantum < procs[process].remaining_time
                           THEN time_quantum ELSE procs[process].remaining_time
            IN  /\ procs'[process].remaining_time =
                       procs[process].remaining_time - slice
                /\ procs'[process].execution_time =
                       procs[process].execution_time + slice
                /\ now' = now + slice]_vars

\* C18 witness: a round-robin dispatch at quantum 2 has just run a process for its
\* last remaining second.
C18_Witness ==
    /\ pc = "rr"
    /\ time_quantum = 2
    /\ run.log # <<>>
    /\ run.log[Len(run.log)].remaining = 1
    /\ procs[run.log[Len(run.log)].proc].remaining_time = 0
    /\ procs[run.log[Len(run.log)].proc].execution_time = BURST

\* C19: for a process that completed in the current run, with start_time t0,
\* response_time t1, completion_time t2 and execution_time C, print_metrics printed
\* turnaround t2 - t0, waiting (t2 - t0) - C and response t1 - t0.
C19_Metrics ==
    \A k \in 1..Len(run.log) :
        run.log[k].completed =>
            LET proc == procs[run.log[k].proc]
                t0   == proc.start_time
                t1   == proc.response_time
                t2   == proc.completion_time
                C    == proc.execution_time
            IN  /\ t1 # None /\ t2 # None
                /\ run.log[k].metrics.turnaround = t2 - t0
                /\ run.log[k].metrics.waiting = (t2 - t0) - C
                /\ run.log[k].metrics.response = t1 - t0

\* C19 witness: metrics were printed for a process admitted after the clock had
\* advanced, which waited before its first dispatch and between its dispatches.
C19_Witness ==
    \E k \in 1..Len(run.log) :
        /\ run.log[k].completed
        /\ procs[run.log[k].proc].start_time > 0
        /\ run.log[k].metrics.response > 0
        /\ run.log[k].metrics.waiting > run.log[k].metrics.response
        /\ run.log[k].metrics.turnaround = run.log[k].metrics.waiting + BURST

\* C20: set_time_quantum(q) can be called with every integer q, zero and negative
\* included, and leaves time_quantum at q when q >= 1 and at 1 otherwise; hence
\* time_quantum >= 1 in every reachable state.
C20_QuantumClamp ==
    /\ [](time_quantum >= 1)
    /\ [](pc = "shell" => \A q \in Quanta : ENABLED set_time_quantum(q))
    /\ [][\A q \in Quanta :
            set_time_quantum(q) => time_quantum' = (IF q >= 1 THEN q ELSE 1)]_vars

\* C20 witness: a round-robin run is dispatching with the quantum 1, which only a
\* set_time_quantum call with q <= 1 leaves behind.
C20_Witness ==
    /\ pc = "rr"
    /\ time_quantum = 1
    /\ run.log # <<>>
    /\ {-1, 0} \subseteq Quanta

RECURSIVE DispatchOrder(_, _)
\* The order in which successive heappop calls hand out the entries of a heap
DispatchOrder(ps, heap) ==
    IF heap = <<>> THEN <<>>
    ELSE <<heappop(ps, heap).item>> \o DispatchOrder(ps, heappop(ps, heap).heap)

\* Number of positions of a queue that hold the process
Occurrences(queue, process) == Cardinality({k \in 1..Len(queue) : queue[k] = process})

\* The queue without the entries for the process
Without(queue, process) == SelectSeq(queue, LAMBDA x : x # process)

\* An admission puts the new process once at the tail of round_robin_queue and once
\* into priority_queue, and the processes queued before keep their membership
C21_EnqueuedOnce ==
    [][Admitted =>
          LET new == Len(procs')
          IN  /\ round_robin_queue' = Append(round_robin_queue, new)
              /\ Occurrences(priority_queue', new) = 1
              /\ Len(priority_queue') = Len(priority_queue) + 1
              /\ \A i \in Objects :
                    Occurrences(priority_queue', i) = Occurrences(priority_queue, i)]_vars

\* C21: a successful admission enqueues the new process exactly once at the tail of
\* round_robin_queue and exactly once into priority_queue, and the processes
\* already queued keep their membership and their relative order (for
\* priority_queue: the order in which they will be dispatched).
C21_EnqueuedOncePreservingOrder ==
    [][Admitted =>
          LET new == Len(procs')
          IN  /\ round_robin_queue' = Append(round_robin_queue, new)
              /\ Occurrences(priority_queue', new) = 1
              /\ Len(priority_queue') = Len(priority_queue) + 1
              /\ \A i \in Objects :
                    Occurrences(priority_queue', i) = Occurrences(priority_queue, i)
              /\ Without(DispatchOrder(procs', priority_queue'), new) =
                     DispatchOrder(procs, priority_queue)]_vars

\* C22: an admission whose page request exceeds the whole pool (pages_needed >
\* MAX_PAGES) is rejected without trace: the process is in neither scheduling
\* queue, has no page_table entry, and no other process has lost pages.
C22_MemoryGatesAdmission ==
    [][(Admitted /\ procs'[Len(procs')].pages_needed > MAX_PAGES) =>
          LET new == Len(procs')
          IN  /\ new \notin Range(round_robin_queue')
              /\ new \notin Range(priority_queue')
              /\ \A k \in 1..Len(page_table') : page_table'[k].obj # new
              /\ \A i \in Objects :
                    procs'[i].allocated_pages = procs[i].allocated_pages]_vars

\* C23: an `add` whose launch raises returns with round_robin_queue, priority_queue,
\* free_pages, page_table and fifo_queue all unchanged.
C23_LaunchErrorNoEffect ==
    [][launch_errors' # launch_errors =>
          UNCHANGED <<round_robin_queue, priority_queue, free_pages, page_table,
                      fifo_queue>>]_vars

\* C23 witness: a launch has failed in a session whose queues and page table are in
\* use, the pool being exhausted.
C23_Witness ==
    /\ launch_errors > 0
    /\ Len(round_robin_queue) >= 2
    /\ page_table # <<>>
    /\ free_pages = <<>>

\* C24: an `add` command with a negative priority, a negative page count or a page
\* count greater than MAX_PAGES changes neither the scheduling queues nor the
\* memory state.
C24_InvalidAddRejected ==
    [][(/\ Admitted
        /\ \/ procs'[Len(procs')].priority < 0
           \/ procs'[Len(procs')].pages_needed < 0
           \/ procs'[Len(procs')].pages_needed > MAX_PAGES) =>
          UNCHANGED <<round_robin_queue, priority_queue, free_pages, page_table,
                      fifo_queue>>]_vars

\* C25: whatever line is typed, the shell loop keeps running: no exception leaves
\* ShellCore.run, and only exit, end of input or an interrupt end the loop.
C25_ShellKeepsRunning == pc \in {"shell", "rr", "priority", "exited"}

\* The queue the current scheduler run works on
RunQueue == IF pc = "rr" THEN round_robin_queue ELSE priority_queue

C27_InterruptKeepsQueue ==
    [][(pc = "rr" /\ round_robin_queue # <<>> /\ pc' # "rr") =>
          round_robin_queue' = round_robin_queue]_vars

\* C28: in src/deli3.py, page replacement only frees allocated pages: free_pages
\* never holds a page number twice, never has more than MAX_PAGES entries, and
\* run_page_replacement never raises, whatever the request sizes.
C28_Deli3FreePages ==
    /\ ~deli3.raised
    /\ \A free \in {deli3.free_pages, deli3.replaced} :
          /\ Len(free) <= MAX_PAGES
          /\ \A a, b \in 1..Len(free) : free[a] = free[b] => a = b

\* C29: in src/final1.py, the process run_priority_scheduling has just dispatched
\* has a priority value greater than or equal to that of every process still queued.
C29_Final1HighestFirst ==
    (final1.pc = "priority" /\ final1.running # NoTuple) =>
        \A k \in 1..Len(final1.priority_queue) :
            final1.running.priority >= final1.priority_queue[k].priority

\* C30: an allocate_pages call for pages_needed <= MAX_PAGES evicts exactly
\* max(0, pages_needed - len(free_pages)) pages, counted against the free list as it
\* was before the call; when it evicts nothing, the page list of every other process
\* is what it was before the call.
C30_MinimalEviction ==
    [][Len(procs') = Len(procs) + 1 =>
          LET i            == Len(procs')
              pages_needed == procs'[i].pages_needed
              evicted      == last_alloc'.evicted
          IN  pages_needed <= MAX_PAGES =>
                  /\ last_alloc'.obj = i
                  /\ Len(evicted) = Max(0, pages_needed - Len(free_pages))
                  /\ evicted = <<>> =>
                         \A j \in 1..Len(procs) :
                             procs'[j].allocated_pages = procs[j].allocated_pages]_vars

\* a request for two pages found one page free, evicted exactly one page from a
\* process that held two, and left that process its other page
C30_Witness ==
    /\ last_alloc.obj = Len(procs)
    /\ Len(procs) >= 2
    /\ procs[last_alloc.obj].pages_needed = 2
    /\ Len(procs[last_alloc.obj].allocated_pages) = 2
    /\ Len(last_alloc.evicted) = 1
    /\ last_alloc.evicted[1].victim \in 1..(Len(procs) - 1)
    /\ Len(procs[last_alloc.evicted[1].victim].allocated_pages) = 1

\* C31: every page reclaimed by the last allocate_pages call is absent from the page
\* list of every process other than the one just admitted (page_table aliases those
\* lists); a process the call left without pages has no page_table entry and is
\* still in round_robin_queue and in priority_queue.
C31_EvictionUpdatesVictim ==
    \A k \in 1..Len(last_alloc.evicted) :
        LET page == last_alloc.evicted[k].page
        IN  \A j \in Objects \ {last_alloc.obj} :
                /\ page \notin Range(procs[j].allocated_pages)
                /\ (procs[j].granted > 0 /\ procs[j].allocated_pages = <<>>) =>
                       /\ \A x \in 1..Len(page_table) : page_table[x].obj # j
                       /\ j \in Range(round_robin_queue)
                       /\ j \in Range(priority_queue)

\* C32: in src/deli3.py, the remaining_time of every process is never negative,
\* whatever quantum (at least 1) the round-robin run uses.
C32_Deli3RemainingTime ==
    \A process \in 1..Len(deli3.remaining_time) :
        deli3.remaining_time[process] >= 0

\* C33: in every reachable state of src/new.py, each process has execution_time +
\* remaining_time equal to its initial burst, and an execution_time that does not
\* exceed the initial burst.
C33_BurstConservation ==
    \A process \in Objects :
        /\ procs[process].execution_time + procs[process].remaining_time = BURST
        /\ procs[process].execution_time <= BURST

\* C33 witness: inside a round-robin run, one process has completed, one of whose
\* slices was shorter than the quantum, while another has run for part of its burst.
C33_Witness ==
    /\ pc = "rr"
    /\ \E entry \in Range(run.log) :
          /\ entry.completed
          /\ entry.remaining \in 1..(time_quantum - 1)
          /\ procs[entry.proc].execution_time = BURST
    /\ \E process \in Objects : procs[process].execution_time \in 1..(BURST - 1)

\* C34: in every reachable state of src/new.py, fifo_queue holds exactly the page
\* numbers listed in page_table entries, each exactly once, and free_pages and
\* fifo_queue together hold every page number 0..MAX_PAGES-1 exactly once; also
\* after an admission under a PID that already has a page_table entry.
C34_FifoMatchesPageTable ==
    /\ \A page \in Pages :
          /\ Occurrences(fifo_queue, page) = Cardinality(Owners(page))
          /\ Occurrences(fifo_queue, page) <= 1
          /\ Occurrences(fifo_queue, page) + Occurrences(free_pages, page) = 1
    /\ Len(fifo_queue) + Len(free_pages) = MAX_PAGES

\* The processes in round_robin_queue when entry number a of the log of a round-robin
\* run was dispatched: those queued at the entry of the run that had not completed
\* in an earlier entry
QueuedAtDispatch(a) ==
    {q \in Range(run.queue) :
        \A c \in 1..(a - 1) : ~(run.log[c].proc = q /\ run.log[c].completed)}

\* C35: during run_round_robin, between two consecutive dispatches of the same
\* process, every other process that was in round_robin_queue at the first of the
\* two dispatches is dispatched exactly once.
C35_RoundRobinFairness ==
    run.kind = "rr" =>
        \A a, b \in 1..Len(run.log) :
            (/\ a < b
             /\ run.log[a].proc = run.log[b].proc
             /\ \A c \in (a + 1)..(b - 1) : run.log[c].proc # run.log[a].proc) =>
                \A q \in QueuedAtDispatch(a) \ {run.log[a].proc} :
                    Cardinality({c \in (a + 1)..(b - 1) : run.log[c].proc = q}) = 1

\* C35 witness: in a round-robin run over three processes, a process was dispatched
\* a second time after both others had run, and a third time after one of them had
\* completed in between.
C35_Witness ==
    /\ run.kind = "rr"
    /\ Cardinality(Range(run.queue)) = 3
    /\ \E a, b, d \in 1..Len(run.log) :
          /\ a < b /\ b < d
          /\ run.log[a].proc = run.log[b].proc
          /\ run.log[b].proc = run.log[d].proc
          /\ b - a = 3
          /\ \E c \in (b + 1)..(d - 1) : run.log[c].completed

\* Producers that hold a permit of empty_slots and have not yet released full_slots
ProducersHoldingSlot ==
    {s \in Sessions : producer[s].pc \in {"mutex.acquire", "append", "mutex.release",
                                         "full_slots.release"}}

\* Consumers that hold a permit of full_slots and have not yet released empty_slots
ConsumersHoldingSlot ==
    {s \in Sessions : consumer[s].pc \in {"mutex.acquire", "pop", "mutex.release",
                                         "empty_slots.release"}}

\* C36: in every reachable state, empty_slots + full_slots + the number of producers
\* between acquiring empty_slots and releasing full_slots + the number of consumers
\* between acquiring full_slots and releasing empty_slots equals buffer_size, for
\* any number of sessions.
C36_SemaphoreAccounting ==
    empty_slots + full_slots + Cardinality(ProducersHoldingSlot)
        + Cardinality(ConsumersHoldingSlot) = buffer_size

\* C36 witness: with two sessions started, every permit is held by a thread: both
\* semaphores are at 0 while a producer and a consumer are each in mid-iteration.
C36_Witness ==
    /\ Cardinality(Started) = 2
    /\ empty_slots = 0
    /\ full_slots = 0
    /\ ProducersHoldingSlot # {}
    /\ ConsumersHoldingSlot # {}

\* C37: once every started producer and consumer thread has finished, whatever the
\* number of sessions and their interleaving, the buffer is empty, empty_slots is
\* buffer_size, full_slots is 0 and the mutex is free: the state in which the first
\* session started.
C37_ChannelReturnsToInitial ==
    (Started # {} /\ Unfinished = {}) =>
        /\ buffer = <<>>
        /\ empty_slots = buffer_size
        /\ full_slots = 0
        /\ mutex = 1

\* C37 witness: two sessions were started and all four threads have finished, each
\* after count iterations, leaving the semaphores at their initial values.
C37_Witness ==
    /\ Cardinality(Started) = 2
    /\ \A s \in Started :
          /\ producer[s].pc = "done" /\ producer[s].i = count
          /\ consumer[s].pc = "done" /\ consumer[s].i = count
    /\ empty_slots = buffer_size
    /\ full_slots = 0

\* C38: no step of run_round_robin or run_priority_scheduling (entry, dispatch,
\* return) changes free_pages, page_table, fifo_queue or the page list of any
\* process; a completed process keeps its pages until an admission evicts them.
C38_SchedulingKeepsMemory ==
    [][(pc \in {"rr", "priority"} \/ pc' \in {"rr", "priority"}) =>
          /\ UNCHANGED <<free_pages, page_table, fifo_queue>>
          /\ Len(procs') = Len(procs)
          /\ \A process \in Objects :
                procs'[process].allocated_pages = procs[process].allocated_pages]_vars

\* C38 witness: after a run, an admission has reclaimed a page from a completed
\* process, while another completed process still holds a page and its page_table
\* entry.
C38_Witness ==
    /\ pc = "shell"
    /\ \E k \in 1..Len(last_alloc.evicted) :
          /\ last_alloc.evicted[k].victim # 0
          /\ procs[last_alloc.evicted[k].victim].remaining_time = 0
    /\ \E process \in Objects :
          /\ procs[process].remaining_time = 0
          /\ procs[process].allocated_pages # <<>>
          /\ \E x \in 1..Len(page_table) : page_table[x].obj = process

\* Items appended so far, over all producers (one per finished append)
Appended ==
    Cardinality({<<s, k>> \in Sessions \X (1..count) :
        k <= producer[s].i + (IF producer[s].pc \in {"mutex.release", "full_slots.release"}
                              THEN 1 ELSE 0)})

\* Consumer iterations that have passed the guarded pop, over all consumers
PopsPassed ==
    Cardinality({<<s, k>> \in Sessions \X (1..count) :
        k <= consumer[s].i + (IF consumer[s].pc \in {"mutex.release", "empty_slots.release"}
                              THEN 1 ELSE 0)})

\* C39: whenever a consumer holds a full_slots permit and the mutex, the buffer is
\* non-empty, so its guarded pop removes an item: the number of items removed
\* (appended minus still buffered) equals the number of consumer iterations that
\* have passed the pop.
C39_GuardNeverFalse ==
    /\ \A s \in Sessions :
          (consumer[s].pc = "pop" /\ <<"consumer", s>> \in Holding) => Len(buffer) >= 1
    /\ Appended - Len(buffer) = PopsPassed

\* C39 witness: with two sessions running, a consumer is about to pop the only item
\* in the buffer, no permit of full_slots being left.
C39_Witness ==
    /\ Cardinality(Started) = 2
    /\ \E s \in Sessions : consumer[s].pc = "pop"
    /\ Len(buffer) = 1
    /\ full_slots = 0
    /\ PopsPassed >= 1

====
